---- MODULE Spec2Model ----
(***************************************************************************)
(* Model of page-excel-generator (src/__main__.py): PageGenerator loads a  *)
(* sheet, validates its header, rewrites image paths, cleans the output    *)
(* folder, renders one page per data row and zips the page folders.        *)
(*                                                                         *)
(* A Python str is a sequence of one-character strings.  A Python value    *)
(* (a cell) is a record [t, s, n]: its type name, its characters when it   *)
(* is a str, its number when it is an int.  Python lists are sequences;    *)
(* Python's 0-based index k is the 1-based index k + 1 here.  A path is a   *)
(* str; a directory or a file on disk is the sequence of the names that    *)
(* lead to it from the root directory.                                     *)
(***************************************************************************)
EXTENDS Integers, Sequences, FiniteSets, TLC

VARIABLES
    pc,                \* position of the run in __init__ / __main__
    excel_data,        \* self.excel_data
    excel_header,      \* self.excel_header
    template_content,  \* local of generate_pages, read once from template.html
    row_i,             \* index in excel_data of the next row of the render loop
    dirs,              \* the directories on disk
    files,             \* the text files on disk -> their content
    archive,           \* htmls/pages.zip: [exists, entries]
    log,               \* lines printed to stdout
    error,             \* the exception that ended the run, or NoError
    probe              \* last answer of the network to __get_image_size__

vars == <<pc, excel_data, excel_header, template_content, row_i,
          dirs, files, archive, log, error, probe>>

(***************************************************************************)
(* Python values and the str operations the program uses                   *)
(***************************************************************************)
None == [t |-> "NoneType", s |-> <<>>, n |-> 0]
Str(chars) == [t |-> "str", s |-> chars, n |-> 0]
Num(k) == [t |-> "int", s |-> <<>>, n |-> k]

\* bool(v): None, "" and 0 are false
Truthy(v) ==
    CASE v.t = "NoneType" -> FALSE
      [] v.t = "str" -> v.s # <<>>
      [] v.t = "int" -> v.n # 0

DigitChars == <<"0", "1", "2", "3", "4", "5", "6", "7", "8", "9">>

RECURSIVE IntToStr(_)
IntToStr(k) ==
    IF k < 0 THEN <<"-">> \o IntToStr(0 - k)
    ELSE IF k < Len(DigitChars) THEN <<DigitChars[k + 1]>>
    ELSE IntToStr(k \div Len(DigitChars)) \o <<DigitChars[(k % Len(DigitChars)) + 1]>>

\* str(v), also what an f-string field {v} formats to
PyStr(v) ==
    CASE v.t = "NoneType" -> <<"N", "o", "n", "e">>
      [] v.t = "str" -> v.s
      [] v.t = "int" -> IntToStr(v.n)

\* sub in s, for str
Contains(s, sub) ==
    \E k \in 0..(Len(s) - Len(sub)) : SubSeq(s, k + 1, k + Len(sub)) = sub


\* the starts (0-based) of the occurrences of sub in s
Occurrences(s, sub) ==
    {k \in 0..(Len(s) - Len(sub)) : SubSeq(s, k + 1, k + Len(sub)) = sub}

\* s.replace(old, new) for a non-empty old: every non-overlapping occurrence,
\* scanning from the left
RECURSIVE Replace(_, _, _)
Replace(s, old, new) ==
    LET found == Occurrences(s, old)
    IN  IF found = {} THEN s
        ELSE LET first == CHOOSE k \in found : \A j \in found : k <= j
             IN  SubSeq(s, 1, first) \o new
                 \o Replace(SubSeq(s, first + Len(old) + 1, Len(s)), old, new)

\* The characters of the cells: the printable ones of ASCII and Latin-1, the
\* Greek letters, I with dot above and the combining dot above.  A
\* character the module's own character set cannot spell is written by its
\* code point.
GRAVE == "U+0060"
I_DOT_ABOVE == "U+0130"
DOT_ABOVE == "U+0307"

\* the characters c.lower() changes, and what it makes of each
UpperChars == <<"A", "B", "C", "D", "E", "F", "G", "H", "I", "J", "K", "L",
                "M", "N", "O", "P", "Q", "R", "S", "T", "U", "V", "W", "X",
                "Y", "Z", "À", "Á", "Â", "Ã", "Ä", "Å", "Æ", "Ç", "È", "É",
                "Ê", "Ë", "Ì", "Í", "Î", "Ï", "Ð", "Ñ", "Ò", "Ó", "Ô", "Õ",
                "Ö", "Ø", "Ù", "Ú", "Û", "Ü", "Ý", "Þ", "Α", "Β", "Γ", "Δ",
                "Ε", "Ζ", "Η", "Θ", "Ι", "Κ", "Λ", "Μ", "Ν", "Ξ", "Ο", "Π",
                "Ρ", "Σ", "Τ", "Υ", "Φ", "Χ", "Ψ", "Ω">>
LowerChars == <<"a", "b", "c", "d", "e", "f", "g", "h", "i", "j", "k", "l",
                "m", "n", "o", "p", "q", "r", "s", "t", "u", "v", "w", "x",
                "y", "z", "à", "á", "â", "ã", "ä", "å", "æ", "ç", "è", "é",
                "ê", "ë", "ì", "í", "î", "ï", "ð", "ñ", "ò", "ó", "ô", "õ",
                "ö", "ø", "ù", "ú", "û", "ü", "ý", "þ", "α", "β", "γ", "δ",
                "ε", "ζ", "η", "θ", "ι", "κ", "λ", "μ", "ν", "ξ", "ο", "π",
                "ρ", "σ", "τ", "υ", "φ", "χ", "ψ", "ω">>

\* the characters lower() leaves as they are: the small letters, the other
\* cased characters, those a word's casing looks through, and the rest
SmallLetters == {LowerChars[k] : k \in DOMAIN LowerChars}
OtherCased == {"ª", "µ", "º", "ß", "ÿ", "ς"}
CaseIgnorable == {"'", ".", ":", "^", GRAVE, "¨", "¯", "´", "·", "¸",
                  DOT_ABOVE}
Uncased == {" ", "!", "\"", "#", "$", "%", "&", "(", ")", "*", "+", ",",
            "-", "/", "0", "1", "2", "3", "4", "5", "6", "7", "8", "9",
            ";", "<", "=", ">", "?", "@", "[", "\\", "]", "_", "{", "|",
            "}", "~", "¡", "¢", "£", "¤", "¥", "¦", "§", "©", "«", "¬",
            "®", "°", "±", "²", "³", "¶", "¹", "»", "¼", "½", "¾", "¿",
            "×", "÷"}
Cased == {UpperChars[k] : k \in DOMAIN UpperChars} \cup SmallLetters
            \cup OtherCased \cup {I_DOT_ABOVE}

\* the characters of c.lower() for one character c, whatever stands around
\* it; no value for a character outside the sets above
LowerChar(c) ==
    CASE c \in SmallLetters \cup Uncased \cup CaseIgnorable \cup OtherCased ->
            <<c>>
      [] c = I_DOT_ABOVE -> <<"i", DOT_ABOVE>>
      [] \E k \in DOMAIN UpperChars : UpperChars[k] = c ->
            <<LowerChars[CHOOSE k \in DOMAIN UpperChars : UpperChars[k] = c]>>

\* lower() writes the capital sigma at s[k] as a final sigma: the nearest
\* character before it that casing does not look through is cased, and the
\* nearest such character after it, if there is one, is not
FinalSigma(s, k) ==
    LET before == {j \in 1..(k - 1) : s[j] \notin CaseIgnorable}
        after == {j \in (k + 1)..Len(s) : s[j] \notin CaseIgnorable}
    IN  /\ before # {}
        /\ s[CHOOSE j \in before : \A i \in before : i <= j] \in Cased
        /\ \/ after = {}
           \/ s[CHOOSE j \in after : \A i \in after : j <= i] \notin Cased

RECURSIVE LowerFrom(_, _)
LowerFrom(s, k) ==
    IF k > Len(s) THEN <<>>
    ELSE (IF s[k] = "Σ" /\ FinalSigma(s, k) THEN <<"ς">> ELSE LowerChar(s[k]))
         \o LowerFrom(s, k + 1)

\* s.lower()
Lower(s) == LowerFrom(s, 1)

\* x in list
In(x, list) == \E k \in 1..Len(list) : list[k] = x

\* list.index(x): the first position holding a value equal to x
Index(list, x) == CHOOSE k \in 1..Len(list) :
    list[k] = x /\ \A j \in 1..(k - 1) : list[j] # x

(***************************************************************************)
(* Configuration                                                           *)
(***************************************************************************)
\* os.getenv("DOMAIN"), os.getenv("IMAGES_FOLDER"): values of one deployment
Domain == <<"h", ":", "d">>
IMAGES_FOLDER == <<"i", "m", "g">>

url == <<"u", "r", "l">>
title == <<"t", "i", "t", "l", "e">>
description == <<"d", "e", "s", "c", "r", "i", "p", "t", "i", "o", "n">>
image == <<"i", "m", "a", "g", "e">>
image_url == image \o <<" ">> \o url
site_name == <<"s", "i", "t", "e", " ", "n", "a", "m", "e">>
image_width == image \o <<" ", "w", "i", "d", "t", "h">>
image_height == image \o <<" ", "h", "e", "i", "g", "h", "t">>

\* self.columns["row"] and self.columns["names"]
columns_row == 1
columns_names == <<Str(url), Str(title), Str(description), Str(image_url),
                   Str(site_name)>>

(***************************************************************************)
(* Paths, and what the file system makes of them                           *)
(***************************************************************************)
\* os.path.dirname(os.path.abspath(__file__)): where one deployment keeps
\* the program
current_folder == <<"/", "w">>

htmls == <<"h", "t", "m", "l", "s">>
index_html == <<"i", "n", "d", "e", "x", ".", "h", "t", "m", "l">>
pages_zip == <<"p", "a", "g", "e", "s", ".", "z", "i", "p">>
template_html == <<"t", "e", "m", "p", "l", "a", "t", "e", ".", "h", "t", "m",
                   "l">>
input_xlsx == <<"i", "n", "p", "u", "t", ".", "x", "l", "s", "x">>
main_py == <<"_", "_", "m", "a", "i", "n", "_", "_", ".", "p", "y">>

\* os.path.join(a, b)
PathJoin(a, b) ==
    IF b # <<>> /\ b[1] = "/" THEN b
    ELSE IF a = <<>> \/ a[Len(a)] = "/" THEN a \o b
    ELSE a \o <<"/">> \o b

\* self.htmls_folder
htmls_folder == PathJoin(current_folder, htmls)

\* the names a path is made of, one before and one after every slash
RECURSIVE Names(_)
Names(path) ==
    LET slashes == {k \in DOMAIN path : path[k] = "/"}
    IN  IF slashes = {} THEN <<path>>
        ELSE LET first == CHOOSE k \in slashes : \A j \in slashes : k <= j
             IN  <<SubSeq(path, 1, first - 1)>>
                 \o Names(SubSeq(path, first + 1, Len(path)))

\* the directory above; the root directory is above itself
Parent(at) == IF at = <<>> THEN at ELSE SubSeq(at, 1, Len(at) - 1)

\* where a path of plain names leads
At(path) ==
    LET IsName(name) == name # <<>>
    IN  SelectSeq(Names(path), IsName)

\* the directories of the program and of its pages
current_dir == At(current_folder)
htmls_dir == At(htmls_folder)

\* p lies below the directory at
Under(p, at) == Len(p) > Len(at) /\ SubSeq(p, 1, Len(at)) = at

\* os.listdir(at)
ListDir(at, all_dirs, all_files) ==
    {p \in all_dirs \cup DOMAIN all_files : Len(p) = Len(at) + 1 /\ Under(p, at)}

\* os.makedirs(path, exist_ok=True), name after name of the path from the
\* directory at: an empty name and "." stay, ".." goes up, another name
\* goes down into a directory, made when missing; a regular file in the
\* way raises FileExistsError when it is where the path ends and
\* NotADirectoryError when the path goes on.  The directories made before
\* an error stay.
RECURSIVE MakeDirs(_, _, _, _)
MakeDirs(made, regular, at, names) ==
    IF names = <<>> THEN [raised |-> "none", dirs |-> made, at |-> at]
    ELSE LET name == Head(names)
             rest == Tail(names)
             child == Append(at, name)
             last == \A k \in DOMAIN rest : rest[k] = <<>>
         IN  IF name = <<>> \/ name = <<".">>
             THEN MakeDirs(made, regular, at, rest)
             ELSE IF name = <<".", ".">>
             THEN MakeDirs(made, regular, Parent(at), rest)
             ELSE IF child \in regular
             THEN [raised |-> IF last THEN "FileExistsError"
                              ELSE "NotADirectoryError",
                   dirs |-> made, at |-> at]
             ELSE MakeDirs(made \cup {child}, regular, child, rest)

(***************************************************************************)
(* The files the run reads, and what the network answers                   *)
(***************************************************************************)
note == <<"n", "o", "t", "e">>
MyGreatPage == <<"M", "y", " ", "G", "r", "e", "a", "t", " ", "P", "a", "g", "e">>
my_great_page == <<"m", "y", " ", "g", "r", "e", "a", "t", " ", "p", "a", "g", "e">>
Hi == <<"H", "i">>

\* header rows of input.xlsx, six columns wide
HeaderPlain == <<Str(url), Str(title), Str(description), Str(image_url),
                 Str(site_name), Str(note)>>
HeaderShuffled == <<Str(note), Str(site_name), Str(image_url), Str(description),
                    Str(title), Str(url)>>
HeaderTwoImages == <<Str(url), Str(title), Str(description), Str(image_url),
                     Str(site_name), Str(image)>>
HeaderSameImages == <<Str(url), Str(title), Str(description), Str(image_url),
                      Str(site_name), Str(image_url)>>
HeaderNoneCell == <<Str(url), Str(title), Str(description), Str(image_url),
                    Str(site_name), None>>
HeaderNoImageUrl == <<Str(url), Str(title), Str(description), Str(image),
                      Str(site_name), Str(note)>>
HeaderNoTitle == <<Str(url), Str(<<"T", "i", "t", "l", "e">>), Num(7),
                   Str(image_url), Str(site_name), None>>
Headers == {HeaderPlain, HeaderShuffled, HeaderTwoImages, HeaderSameImages,
            HeaderNoneCell, HeaderNoImageUrl, HeaderNoTitle}

\* data rows of input.xlsx, six cells wide
RowPlain == <<Str(<<"u">>), Str(<<"T">>), Str(MyGreatPage), Str(<<"p">>),
              Str(<<"s">>), Str(<<"n">>)>>
RowLower == <<Str(<<"v">>), Str(<<"t">>), Str(my_great_page), Str(<<"q">>),
              Str(<<"s">>), Str(<<"n">>)>>
RowEqualCells == <<Str(<<"a">>), Str(<<"a">>), Str(Hi), Str(<<"p">>),
                   Str(<<"s">>), Str(<<"n">>)>>
RowNullTitle == <<Str(<<"u">>), None, Str(Hi), Str(<<"p">>), Str(<<"s">>),
                  Str(<<"n">>)>>
RowNullSlug == <<Str(<<"u">>), Str(<<"T">>), None, Str(<<"p">>), Str(<<"s">>),
                 Str(<<"n">>)>>
RowEmptySlug == <<Str(<<"u">>), Str(<<"T">>), Str(<<>>), Str(<<"p">>),
                  Str(<<"s">>), Str(<<"n">>)>>
RowNumberSlug == <<Str(<<"u">>), Str(<<"T">>), Num(7), Str(<<"p">>),
                   Str(<<"s">>), Str(<<"n">>)>>
RowNullImage == <<Str(<<"u">>), Str(<<"T">>), Str(Hi), None, Str(<<"s">>),
                  Str(<<"n">>)>>
RowZeroSlug == <<Str(<<"u">>), Str(<<"T">>), Num(0), Str(<<"p">>), Num(7),
                 Str(<<"n">>)>>
RowDot == <<Str(<<"u">>), Str(<<"T">>), Str(<<".">>), Str(<<"p">>),
            Str(<<"s">>), Str(<<"n">>)>>
RowParent == <<Str(<<"u">>), Str(<<"T">>), Str(<<".", ".">>), Str(<<"p">>),
               Str(<<"s">>), Str(<<"n">>)>>
RowAbsolute == <<Str(<<"u">>), Str(<<"T">>), Str(<<"/", "X">>), Str(<<"p">>),
                 Str(<<"s">>), Str(<<"n">>)>>
RowNested == <<Str(<<"u">>), Str(<<"T">>), Str(<<"a", "/", "B">>),
               Str(<<"p">>), Str(<<"s">>), Str(<<"n">>)>>
RowIndex == <<Str(<<"u">>), Str(<<"T">>), Str(Hi \o <<"/">> \o index_html),
              Str(<<"p">>), Str(<<"s">>), Str(<<"n">>)>>
RowZip == <<Str(<<"u">>), Str(<<"T">>), Str(pages_zip), Str(<<"p">>),
            Str(<<"s">>), Str(<<"n">>)>>
RowLetters == <<Str(<<"u">>), Str(<<"T">>),
                Str(<<"É", " ", I_DOT_ABOVE, "Σ">>), Str(<<"p">>),
                Str(<<"s">>), Str(<<"n">>)>>

Rows == {RowPlain, RowLower, RowEqualCells, RowNullTitle, RowNullSlug,
         RowEmptySlug, RowNumberSlug, RowNullImage, RowZeroSlug}

\* the most data rows a sheet holds
MaxRows == 2

RowLists == UNION {[1..k -> Rows] : k \in 0..MaxRows}

\* the grids openpyxl can hand back: a header row, then the data rows
Sheets == {<<h>> \o rows : h \in Headers, rows \in RowLists}

\* sheets whose description cells are paths of their own, or hold letters
\* beyond ASCII
PathRows == {RowPlain, RowEqualCells, RowNullSlug, RowEmptySlug, RowDot,
             RowParent, RowAbsolute, RowNested, RowIndex, RowZip, RowLetters}
PathSheets == {<<HeaderPlain>> \o rows :
                  rows \in UNION {[1..k -> PathRows] : k \in 0..MaxRows}}

Missing == [exists |-> FALSE, content |-> <<>>]
File(content) == [exists |-> TRUE, content |-> content]

\* input.xlsx as found on disk
ExcelFiles == {Missing} \cup {File(sheet) : sheet \in Sheets}
PathFiles == {File(sheet) : sheet \in PathSheets}

\* f"[{current_column_name}]"
Token(column_name) == <<"[">> \o PyStr(column_name) \o <<"]">>

TemplateFull ==
    Token(Str(url)) \o <<"|">> \o Token(Str(title)) \o <<"|">>
    \o Token(Str(description)) \o <<"|">> \o Token(Str(image_url)) \o <<"|">>
    \o Token(Str(site_name)) \o <<"|">> \o Token(Str(note)) \o <<"|">>
    \o Token(Str(image_width)) \o <<"x">> \o Token(Str(image_height))
TemplateRepeat ==
    <<"<">> \o Token(Str(title)) \o Token(Str(title)) \o <<">">>
    \o Token(Str(image)) \o Token(None) \o <<"[", "x", "]">>
    \o Token(Str(site_name))

\* template.html as found on disk
TemplateFiles == {Missing, File(TemplateFull), File(TemplateRepeat)}

\* what requests.get(image_url) and Image.open make of one url
FetchFailed == [kind |-> "fetch_failed", size |-> <<0, 0>>]
NotAnImage == [kind |-> "not_an_image", size |-> <<0, 0>>]
ImageOf(size) == [kind |-> "image", size |-> size]
NoProbe == [kind |-> "none", size |-> <<0, 0>>]
Responses == {FetchFailed, NotAnImage, ImageOf(<<640, 480>>)}

(***************************************************************************)
(* The disk                                                                *)
(***************************************************************************)
NoArchive == [exists |-> FALSE, entries |-> {}]
Entry(name, content) == [name |-> name, content |-> content]

\* the program, and the two files it has read when the first page is made
SourceFiles ==
    {Append(current_dir, name) : name \in {main_py, input_xlsx, template_html}}

\* what an earlier run left behind in htmls
OldFolder == <<"o", "l", "d">>
OldPage == <<"o">>
OldArchive == [exists |-> TRUE,
               entries |-> {Entry(OldFolder \o <<"/">> \o index_html, OldPage)}]

\* the disk after os.makedirs(self.htmls_folder, exist_ok=True)
OldDirs == {<<>>, current_dir, htmls_dir, Append(htmls_dir, OldFolder)}
OldFiles == (htmls_dir \o <<OldFolder, index_html>>) :> OldPage

Line(msg, arg) == [msg |-> msg, arg |-> arg]
NoError == [type |-> "none", column |-> <<>>, header |-> <<>>]
Raise(type) == [type |-> type, column |-> <<>>, header |-> <<>>]

(***************************************************************************)
(* PageGenerator.__init__, up to the first call                            *)
(***************************************************************************)
Init ==
    /\ pc = "init"
    /\ excel_data = <<>>
    /\ excel_header = <<>>
    /\ template_content = <<>>
    /\ row_i = 0
    /\ dirs = OldDirs
    /\ files = OldFiles
    /\ archive = OldArchive
    /\ log = <<Line("Initializing PageGenerator...", <<>>)>>
    /\ error = NoError
    /\ probe = NoProbe

\* an exception nobody catches ends the run
Abort(exception) ==
    /\ pc' = "failed"
    /\ error' = exception

(***************************************************************************)
(* __load_excel_data__                                                     *)
(***************************************************************************)
load_excel_data(excel_files) ==
    /\ pc = "init"
    /\ log' = Append(log, Line("Loading excel data...", <<>>))
    /\ \E excel \in excel_files :
        IF ~excel.exists
        THEN /\ Abort(Raise("FileNotFoundError"))
             /\ UNCHANGED excel_data
        ELSE /\ excel_data' = excel.content
             /\ pc' = "loaded"
             /\ UNCHANGED error
    /\ UNCHANGED <<excel_header, template_content, row_i, dirs, files,
                   archive, probe>>

(***************************************************************************)
(* __save_header__                                                         *)
(***************************************************************************)
save_header ==
    /\ pc = "loaded"
    /\ IF columns_row - 1 < Len(excel_data)
       THEN /\ excel_header' = excel_data[(columns_row - 1) + 1]
            /\ pc' = "header_saved"
            /\ UNCHANGED error
       ELSE /\ Abort(Raise("IndexError"))
            /\ UNCHANGED excel_header
    /\ UNCHANGED <<excel_data, template_content, row_i, dirs, files,
                   archive, log, probe>>

(***************************************************************************)
(* __validate_excel_columns__                                              *)
(***************************************************************************)
\* the positions in names of the names the header lacks
MissingPositions(names, header) ==
    {k \in 1..Len(names) : ~In(names[k], header)}

\* ColumnsCheck as a positional check: the k-th name must be the k-th header
\* cell (what the method's docstring, "columns and column's order", suggests)
ColumnsCheckInOrder(names, header) ==
    LET missing == {k \in 1..Len(names) :
                        k > Len(header) \/ header[k] # names[k]}
    IN  IF missing = {} THEN NoError
        ELSE LET first == CHOOSE k \in missing : \A j \in missing : k <= j
             IN  [type |-> "ValueError", column |-> names[first].s,
                  header |-> header]

\* the exception the loop over self.columns_names raises, NoError when it
\* runs to its end: the first name, in the order of names, not in the header
ColumnsCheck(names, header) ==
    LET missing == MissingPositions(names, header)
    IN  IF missing = {} THEN NoError
        ELSE LET first == CHOOSE k \in missing : \A j \in missing : k <= j
             IN  [type |-> "ValueError", column |-> names[first].s,
                  header |-> header]

\* the validation with its error swallowed: it reports and goes on
validate_excel_columns_no_raise ==
    /\ pc = "header_saved"
    /\ log' = Append(log, Line("Validating excel columns...", <<>>))
    /\ pc' = "validated"
    /\ UNCHANGED <<excel_data, excel_header, template_content, row_i, dirs,
                   files, archive, error, probe>>

validate_excel_columns ==
    /\ pc = "header_saved"
    /\ log' = Append(log, Line("Validating excel columns...", <<>>))
    /\ LET raised == ColumnsCheck(columns_names, excel_header)
       IN  IF raised = NoError
           THEN pc' = "validated" /\ UNCHANGED error
           ELSE Abort(raised)
    /\ UNCHANGED <<excel_data, excel_header, template_content, row_i, dirs,
                   files, archive, probe>>

(***************************************************************************)
(* __replace_images_paths__                                                *)
(***************************************************************************)
\* images_columns_indexes: for every header cell whose str contains "image",
\* in header order, self.excel_header.index(column_name)
ImagesColumnsIndexes(header) ==
    LET found == [k \in 1..Len(header) |-> Index(header, header[k])]
        IsImage(column_index) == Contains(PyStr(header[column_index]), image)
    IN  SelectSeq(found, IsImage)

\* f"{DOMAIN}/{IMAGES_FOLDER}/{image_file}"
NewImagePath(image_file) ==
    Str(Domain \o <<"/">> \o IMAGES_FOLDER \o <<"/">> \o PyStr(image_file))

\* the inner loop: row[column_index] = new_image_path, index after index
RECURSIVE ReplaceInRow(_, _)
ReplaceInRow(row, indexes) ==
    IF indexes = <<>> THEN row
    ELSE ReplaceInRow(
            [row EXCEPT ![Head(indexes)] = NewImagePath(row[Head(indexes)])],
            Tail(indexes))

\* the rows of self.excel_data[self.columns_row:] rewritten in place
ReplaceImagesPaths(data, header) ==
    [k \in 1..Len(data) |->
        IF k <= columns_row THEN data[k]
        ELSE ReplaceInRow(data[k], ImagesColumnsIndexes(header))]

replace_images_paths ==
    /\ pc = "validated"
    /\ excel_data' = ReplaceImagesPaths(excel_data, excel_header)
    /\ pc' = "paths_replaced"
    /\ UNCHANGED <<excel_header, template_content, row_i, dirs, files,
                   archive, log, error, probe>>

(***************************************************************************)
(* __clean_htmls_folder__                                                  *)
(***************************************************************************)
clean_htmls_folder ==
    /\ pc = "paths_replaced"
    /\ log' = Append(log, Line("Cleaning html folder...", <<>>))
    /\ dirs' = {d \in dirs : ~Under(d, htmls_dir)}
    /\ files' = [f \in {g \in DOMAIN files : ~Under(g, htmls_dir)} |-> files[f]]
    /\ archive' = NoArchive
    /\ pc' = "cleaned"
    /\ UNCHANGED <<excel_data, excel_header, template_content, row_i, error,
                   probe>>

(***************************************************************************)
(* __get_image_size__                                                      *)
(***************************************************************************)
\* (0, 0) when the request fails, an exception of Image.open when the body
\* is no image, else the image's size
get_image_size(response) ==
    CASE response.kind = "fetch_failed" ->
            [raised |-> FALSE, width |-> 0, height |-> 0]
      [] response.kind = "not_an_image" ->
            [raised |-> TRUE, width |-> 0, height |-> 0]
      [] response.kind = "image" ->
            [raised |-> FALSE, width |-> response.size[1],
             height |-> response.size[2]]

(***************************************************************************)
(* generate_pages                                                          *)
(***************************************************************************)
\* page_title.lower().replace(" ", "-")
Slug(page_title) == Replace(Lower(page_title), <<" ">>, <<"-">>)

\* the substitution with every cell passed through str(): a null cell is
\* written as "None"
RECURSIVE ReplaceCellsStr(_, _, _, _)
ReplaceCellsStr(content, row, header, k) ==
    IF k > Len(row) THEN [raised |-> FALSE, content |-> content]
    ELSE ReplaceCellsStr(
            Replace(content, Token(header[Index(row, row[k])]), PyStr(row[k])),
            row, header, k + 1)

\* "for cell in row", from the k-th cell on: the column of a cell is looked
\* up by row.index(cell); str.replace raises TypeError for a cell not a str
RECURSIVE ReplaceCells(_, _, _, _)
ReplaceCells(content, row, header, k) ==
    IF k > Len(row) THEN [raised |-> FALSE, content |-> content]
    ELSE LET cell == row[k]
             cell_index == Index(row, cell)
             current_column_name == header[cell_index]
         IN  IF cell.t # "str" THEN [raised |-> TRUE, content |-> content]
             ELSE ReplaceCells(
                     Replace(content, Token(current_column_name), cell.s),
                     row, header, k + 1)

\* the two replacements that follow a measurement
ReplaceImageSize(content, width, height) ==
    Replace(Replace(content, Token(Str(image_width)), PyStr(Num(width))),
            Token(Str(image_height)), PyStr(Num(height)))

\* the regular files on disk
RegularFiles ==
    DOMAIN files \cup SourceFiles
        \cup (IF archive.exists THEN {Append(htmls_dir, pages_zip)} ELSE {})

\* one pass of the loop body up to the call of __get_image_size__, on a
\* disk of the directories fs_dirs and the regular files regular:
\*   "skip"            the slug source is false, continue
\*   "AttributeError"  the slug source is no str and has no lower()
\*   "makedirs"        os.makedirs raised the error named by raised
\*   "TypeError"       a cell is no str
\*   "measure"         the image is to be measured
\* html_path is the file that open(html_path, "w") would write
BeforeMeasure(row, header, template, fs_dirs, regular) ==
    LET title_index == Index(header, Str(description))
        page_title == row[title_index]
        slug == Slug(page_title.s)
        html_folder == PathJoin(htmls_folder, slug)
        made == MakeDirs(fs_dirs, regular, <<>>, Names(html_folder))
        replaced == ReplaceCells(template, row, header, 1)
        here == [stage |-> "skip", slug |-> <<>>, raised |-> "none",
                 dirs |-> fs_dirs, html_path |-> <<>>, content |-> <<>>,
                 image_url |-> None]
        there == [here EXCEPT !.slug = slug, !.dirs = made.dirs]
    IN  IF ~Truthy(page_title) THEN here
        ELSE IF page_title.t # "str"
             THEN [here EXCEPT !.stage = "AttributeError"]
        ELSE IF made.raised # "none"
             THEN [there EXCEPT !.stage = "makedirs", !.raised = made.raised]
        ELSE IF replaced.raised
             THEN [there EXCEPT !.stage = "TypeError"]
        ELSE [there EXCEPT !.stage = "measure",
                           !.html_path = Append(made.at, index_html),
                           !.content = replaced.content,
                           !.image_url = row[Index(header, Str(image_url))]]

\* the loop moves to the next row, or generate_pages returns
NextRow ==
    /\ row_i' = row_i + 1
    /\ pc' = IF row_i + 1 > Len(excel_data) THEN "generated" ELSE "generating"

\* open(self.template_path).read(), and the loop's first row
generate_pages ==
    /\ pc = "cleaned"
    /\ log' = Append(log, Line("Generating pages...", <<>>))
    /\ \E template \in TemplateFiles :
        IF ~template.exists
        THEN /\ Abort(Raise("FileNotFoundError"))
             /\ UNCHANGED <<template_content, row_i>>
        ELSE /\ template_content' = template.content
             /\ row_i' = columns_row + 1
             /\ pc' = IF columns_row + 1 > Len(excel_data)
                      THEN "generated" ELSE "generating"
             /\ UNCHANGED error
    /\ UNCHANGED <<excel_data, excel_header, dirs, files, archive, probe>>

\* the loop body with the cells replaced in template_content itself, so
\* that a row starts from the text the row before it left
generate_pages_row_in_place ==
    /\ pc = "generating"
    /\ LET before == BeforeMeasure(excel_data[row_i], excel_header,
                                   template_content, dirs, RegularFiles)
       IN  template_content' = IF before.stage = "measure"
                               THEN before.content ELSE template_content
    /\ NextRow
    /\ UNCHANGED <<excel_data, excel_header, dirs, files, archive, log,
                   error, probe>>

\* the loop body for the row at row_i
generate_pages_row ==
    /\ pc = "generating"
    /\ LET row == excel_data[row_i]
           before == BeforeMeasure(row, excel_header, template_content, dirs,
                                   RegularFiles)
           generating == Append(log, Line("Generating page", before.slug))
       IN  CASE before.stage = "skip" ->
                  /\ NextRow
                  /\ probe' = NoProbe
                  /\ UNCHANGED <<dirs, files, log, error>>
             [] before.stage = "AttributeError" ->
                  /\ Abort(Raise("AttributeError"))
                  /\ probe' = NoProbe
                  /\ UNCHANGED <<row_i, dirs, files, log>>
             [] before.stage = "makedirs" ->
                  /\ Abort(Raise(before.raised))
                  /\ log' = generating
                  /\ dirs' = before.dirs
                  /\ probe' = NoProbe
                  /\ UNCHANGED <<row_i, files>>
             [] before.stage = "TypeError" ->
                  /\ Abort(Raise("TypeError"))
                  /\ log' = generating
                  /\ dirs' = before.dirs
                  /\ probe' = NoProbe
                  /\ UNCHANGED <<row_i, files>>
             [] before.stage = "measure" ->
                  \E response \in Responses :
                    LET measured == get_image_size(response)
                    IN  /\ probe' = response
                        /\ dirs' = before.dirs
                        /\ IF measured.raised
                           THEN /\ Abort(Raise("UnidentifiedImageError"))
                                /\ log' = generating
                                /\ UNCHANGED <<row_i, files>>
                           ELSE IF measured.width = 0 /\ measured.height = 0
                           THEN /\ NextRow
                                /\ log' = Append(generating,
                                        Line("Error getting image size",
                                             PyStr(before.image_url)))
                                /\ UNCHANGED <<files, error>>
                           ELSE IF before.html_path \in before.dirs
                           THEN /\ Abort(Raise("IsADirectoryError"))
                                /\ log' = generating
                                /\ UNCHANGED <<row_i, files>>
                           ELSE /\ NextRow
                                /\ log' = generating
                                /\ files' = (before.html_path :>
                                        ReplaceImageSize(before.content,
                                            measured.width, measured.height))
                                        @@ files
                                /\ UNCHANGED error
    /\ UNCHANGED <<excel_data, excel_header, template_content, archive>>

(***************************************************************************)
(* compress_htmls                                                          *)
(***************************************************************************)
RECURSIVE JoinNames(_)
JoinNames(names) ==
    IF Len(names) = 1 THEN names[1]
    ELSE names[1] \o <<"/">> \o JoinNames(Tail(names))

\* os.path.relpath(file, start), for a file below the directory start
RelativePath(file, start) ==
    JoinNames(SubSeq(file, Len(start) + 1, Len(file)))

\* the files os.walk(folder) comes by: none when folder is no directory
Walk(folder, all_dirs, all_files) ==
    IF folder \in all_dirs
    THEN {f \in DOMAIN all_files : Under(f, folder)}
    ELSE {}

\* what the walk of every entry of htmls writes to the zip, each file under
\* its path relative to os.path.join(folder, '..')
ZipEntries(all_dirs, all_files) ==
    UNION {{Entry(RelativePath(f, Parent(folder)), all_files[f]) :
                f \in Walk(folder, all_dirs, all_files)} :
           folder \in ListDir(htmls_dir, all_dirs, all_files)}

\* zipfile.ZipFile(output_path, 'w') raises when output_path is a directory
compress_htmls ==
    /\ pc = "generated"
    /\ log' = Append(log, Line("Compressing htmls...", <<>>))
    /\ IF At(PathJoin(htmls_folder, pages_zip)) \in dirs
       THEN /\ Abort(Raise("IsADirectoryError"))
            /\ UNCHANGED archive
       ELSE /\ archive' = [exists |-> TRUE, entries |-> ZipEntries(dirs, files)]
            /\ pc' = "compressed"
            /\ UNCHANGED error
    /\ UNCHANGED <<excel_data, excel_header, template_content, row_i, dirs,
                   files, probe>>

(***************************************************************************)
(* The run: PageGenerator(), generate_pages(), compress_htmls()            *)
(***************************************************************************)
Next ==
    \/ load_excel_data(ExcelFiles)
    \/ save_header
    \/ validate_excel_columns
    \/ replace_images_paths
    \/ clean_htmls_folder
    \/ generate_pages
    \/ generate_pages_row
    \/ compress_htmls

Spec == Init /\ [][Next]_vars

(***************************************************************************)
(* The run on the sheets of PathSheets                                     *)
(***************************************************************************)
NextPaths ==
    \/ load_excel_data(PathFiles)
    \/ save_header
    \/ validate_excel_columns
    \/ replace_images_paths
    \/ clean_htmls_folder
    \/ generate_pages
    \/ generate_pages_row
    \/ compress_htmls

SpecPaths == Init /\ [][NextPaths]_vars

(***************************************************************************)
(* The constructor's first three calls on every header of NumColumns cells *)
(***************************************************************************)
\* the width of the header-only sheets
NumColumns == 5

HeaderCells == {columns_names[k] : k \in 1..Len(columns_names)}
                   \cup {Str(<<"T", "i", "t", "l", "e">>), None}

ColumnFiles == {File(<<h>>) : h \in [1..NumColumns -> HeaderCells]}

NextColumns ==
    \/ load_excel_data(ColumnFiles)
    \/ save_header
    \/ validate_excel_columns

SpecColumns == Init /\ [][NextColumns]_vars

(***************************************************************************)
(* Claims                                                                  *)
(***************************************************************************)
RequiredNames == {url, title, description, image_url, site_name}

\* the required names no cell of the header equals
NamesNotIn(header) ==
    {name \in RequiredNames : \A k \in DOMAIN header : header[k] # Str(name)}

(* C1: validation succeeds exactly when the header holds every required    *)
(* name, at whatever positions; otherwise it fails with a ValueError that  *)
(* carries a name the header lacks (the one missing name when only one is  *)
(* missing) and the whole observed header.                                 *)
C1_Validation ==
    [][pc = "header_saved" =>
        IF NamesNotIn(excel_header) = {}
        THEN pc' = "validated" /\ error' = NoError
        ELSE /\ pc' = "failed"
             /\ error'.type = "ValueError"
             /\ error'.column \in NamesNotIn(excel_header)
             /\ error'.header = excel_header]_vars

\* a header in another order than the required list was accepted
C1_Witness ==
    /\ pc = "validated"
    /\ excel_header[1] = Str(site_name)
    /\ excel_header[NumColumns] = Str(url)

\* the row the loop body is about to process, and its slug source cell
CurrentRow == excel_data[row_i]
SlugSource == CurrentRow[Index(excel_header, Str(description))]

\* this step of the loop wrote the page of the current row
PageWritten == pc = "generating" /\ probe'.kind = "image" /\ error' = NoError

(* C2: the page written for a rendered row holds no [<name>] token of any  *)
(* header column, and where the template held a column's token the page    *)
(* holds that column's cell value of the row (of the first column of that  *)
(* name, when several columns share it).                                   *)
C2_TokensReplaced ==
    [][PageWritten =>
        LET page == files'[htmls_dir \o <<Slug(SlugSource.s), index_html>>]
        IN  \A k \in DOMAIN excel_header :
              /\ ~Contains(page, Token(excel_header[k]))
              /\ (/\ Contains(template_content, Token(excel_header[k]))
                  /\ \A j \in 1..(k - 1) : excel_header[j] # excel_header[k])
                    => Contains(page, CurrentRow[k].s)]_vars

\* the path the claim gives the cell of an image column
PrefixedOnce(cell) ==
    Str(Domain \o <<"/">> \o IMAGES_FOLDER \o <<"/">> \o PyStr(cell))

(* C3: one run of the path rewriting turns the cell v of every column      *)
(* whose header name contains "image", in every data row, into             *)
(* DOMAIN/IMAGES_FOLDER/v, and leaves every other cell and the header row  *)
(* as they were.                                                           *)
C3_PathsRewritten ==
    [][pc = "validated" =>
        /\ excel_header' = excel_header
        /\ Len(excel_data') = Len(excel_data)
        /\ \A r \in DOMAIN excel_data :
             /\ Len(excel_data'[r]) = Len(excel_data[r])
             /\ \A k \in DOMAIN excel_data[r] :
                  excel_data'[r][k] =
                    IF r > columns_row
                       /\ Contains(PyStr(excel_header[k]), image)
                    THEN PrefixedOnce(excel_data[r][k])
                    ELSE excel_data[r][k]]_vars

\* the stages in their order; a step leads to the next stage, stays in the
\* render loop, or fails
StageOrder == <<"init", "loaded", "header_saved", "validated",
                "paths_replaced", "cleaned", "generating", "generated",
                "compressed">>
StageOf(p) == CHOOSE k \in DOMAIN StageOrder : StageOrder[k] = p

\* htmls as the earlier run left it
HtmlsUntouched ==
    dirs = OldDirs /\ files = OldFiles /\ archive = OldArchive

(* C4: the run goes through its stages in order, one after the other; a    *)
(* stage past validation is reached only with a loaded sheet whose header  *)
(* holds every required name; a failed run takes no further step; and when *)
(* loading, header extraction or validation fails, no path was rewritten   *)
(* and htmls still holds what it held: not cleaned, no page, no new        *)
(* archive.                                                                *)
C4_Sequential ==
    [][/\ pc \notin {"failed", "compressed"}
       /\ \/ pc' = "failed" /\ error' # NoError
          \/ /\ error' = NoError
             /\ \/ StageOf(pc') = StageOf(pc) + 1
                \/ pc = "cleaned" /\ pc' = "generated"
                \/ pc = "generating" /\ pc' = "generating"
       /\ (pc' # "failed" /\ StageOf(pc') >= StageOf("validated"))
            => /\ NamesNotIn(excel_header') = {}
               /\ excel_header' = excel_data'[columns_row]
       /\ (pc' = "failed" /\ StageOf(pc) <= StageOf("header_saved"))
            => /\ excel_data' = excel_data
               /\ HtmlsUntouched'
       /\ (pc' # "failed" /\ StageOf(pc') <= StageOf("paths_replaced"))
            => HtmlsUntouched'
       /\ archive'.exists /\ archive' # OldArchive => pc' = "compressed"]_vars

\* validation failed and the run stopped there, htmls not cleaned
C4_Witness ==
    /\ pc = "failed"
    /\ error.type = "ValueError"
    /\ Len(excel_data) > columns_row
    /\ HtmlsUntouched

(* C5: a row whose image measurement fails, by a failed request or by a    *)
(* body that is no image, is skipped: the step creates no folder and no    *)
(* file, prints the error line, raises nothing, and the loop goes on to    *)
(* the next row.                                                           *)
C5_MeasurementFailureSkipsRow ==
    [][pc = "generating" /\ probe'.kind \in {"fetch_failed", "not_an_image"} =>
        /\ dirs' = dirs
        /\ files' = files
        /\ log' # log
        /\ log'[Len(log')].msg = "Error getting image size"
        /\ error' = NoError
        /\ pc' # "failed"
        /\ row_i' = row_i + 1]_vars

\* the claim's slug: lowercased, every space a hyphen
HyphenLower(chars) ==
    LET lowered == Lower(chars)
    IN  [k \in DOMAIN lowered |-> IF lowered[k] = " " THEN "-" ELSE lowered[k]]
my_great_page_slug == <<"m", "y", "-", "g", "r", "e", "a", "t", "-", "p", "a",
                        "g", "e">>

\* the folder of htmls a slug names, and with it the folders on the way to it
\* when the slug has slashes
FoldersOf(slug) ==
    LET folder == htmls_dir \o Names(slug)
    IN  {SubSeq(folder, 1, n) : n \in (Len(htmls_dir) + 1)..Len(folder)}

(* C6: for a row whose slug source (the description cell) is a non-empty   *)
(* text, the step leaves in htmls the folder named by the cell lowercased  *)
(* with hyphens for spaces, makes no other folder, and a page the step     *)
(* writes is the index.html of that folder; "My Great Page" gives          *)
(* "my-great-page".  For a row whose slug source is empty or null the step *)
(* creates no folder and no file, raises nothing, and the loop goes on to  *)
(* the next row.                                                           *)
C6_SlugFolder ==
    [][pc = "generating" =>
        /\ (SlugSource = None \/ SlugSource = Str(<<>>)) =>
              /\ dirs' = dirs
              /\ files' = files
              /\ error' = NoError
              /\ row_i' = row_i + 1
              /\ pc' = IF row_i < Len(excel_data) THEN "generating"
                       ELSE "generated"
        /\ (SlugSource.t = "str" /\ SlugSource.s # <<>>) =>
              LET slug == HyphenLower(SlugSource.s)
                  page == htmls_dir \o Names(slug) \o <<index_html>>
              IN  /\ dirs' = dirs \cup FoldersOf(slug)
                  /\ SlugSource.s = MyGreatPage => slug = my_great_page_slug
                  /\ \A f \in DOMAIN files' :
                        f # page => f \in DOMAIN files /\ files'[f] = files[f]
                  /\ DOMAIN files \subseteq DOMAIN files'
                  /\ PageWritten => page \in DOMAIN files'
                  /\ ~PageWritten => files' = files]_vars

\* the current row got past the slug and holds a null cell
NullCellSubstituted ==
    /\ SlugSource.t = "str" /\ SlugSource.s # <<>>
    /\ \E k \in DOMAIN CurrentRow : CurrentRow[k] = None

(* C7: when a row that reaches the substitution holds a null cell, the     *)
(* step raises TypeError and writes no file; a page is written only from a *)
(* row all of whose cells are text, so no token is replaced by "None" nor  *)
(* left in place for a null cell.                                          *)
C7_NullCellFails ==
    [][pc = "generating" =>
        /\ NullCellSubstituted =>
              pc' = "failed" /\ error'.type = "TypeError" /\ files' = files
        /\ files' # files \/ PageWritten =>
              \A k \in DOMAIN CurrentRow : CurrentRow[k].t = "str"]_vars

\* the run ended in the TypeError of a row with a null cell
C7_Witness ==
    /\ pc = "failed"
    /\ error.type = "TypeError"
    /\ \E k \in DOMAIN CurrentRow : CurrentRow[k] = None

\* the name the claim gives the archive entry of a page: its path from htmls
EntryName(file) == JoinNames(SubSeq(file, Len(htmls_dir) + 1, Len(file)))

(* C8: pages.zip holds, for every page the run has written, one entry      *)
(* named by the page's path from htmls, <slug>/index.html, with the page's *)
(* content, and nothing else: nothing of an archive found before the run,  *)
(* not itself.  Every page lies in a folder of htmls, so that extracting   *)
(* the archive gives back exactly the pages written.                       *)
C8_ArchiveRoundTrip ==
    pc = "compressed" =>
        /\ archive.exists
        /\ \A f \in DOMAIN files :
              /\ Under(f, htmls_dir)
              /\ Cardinality({e \in archive.entries :
                                e.name = EntryName(f)}) = 1
        /\ \A e \in archive.entries :
              \E f \in DOMAIN files :
                  /\ Under(f, htmls_dir)
                  /\ e.name = EntryName(f)
                  /\ e.content = files[f]
        /\ Cardinality(archive.entries) = Cardinality(DOMAIN files)

\* the lines of the log with this message
LinesOf(msg) == {k \in DOMAIN log : log[k].msg = msg}

\* the rows rendered so far: those announced less those given up
RenderedRows ==
    Cardinality(LinesOf("Generating page"))
        - Cardinality(LinesOf("Error getting image size"))

(* C9: when generate_pages returns, the pages on disk are as many as the   *)
(* rows rendered: no two rendered rows share an output path.               *)
C9_DistinctOutputs ==
    pc = "generated" => Cardinality(DOMAIN files) = RenderedRows

(* C10: from the end of the path rewriting on, no step changes the sheet   *)
(* or the header, and once read the template text stays the text of        *)
(* template.html: each row starts from it.                                 *)
C10_LoadedDataKept ==
    [][StageOf(IF pc = "failed" THEN "init" ELSE pc) >= StageOf("paths_replaced") =>
        /\ excel_data' = excel_data
        /\ excel_header' = excel_header
        /\ pc = "generating" =>
              /\ template_content' = template_content
              /\ template_content \in {TemplateFull, TemplateRepeat}]_vars

\* two rows were rendered and the archive built
C10_Witness ==
    /\ pc = "compressed"
    /\ RenderedRows = 2
    /\ excel_header = excel_data[columns_row]
====
